---- MODULE Spec2Model ----
(***************************************************************************)
(* Model of the browser-status client of the skyvern browser-selection     *)
(* feature: SimpleCache, apiCallWithRetry / shouldRetry,                   *)
(* ConnectionStateManager, AxiosClient.getAdsPowerStatus,                  *)
(* AdsPowerConnectionManager.checkConnectionWithRecovery (TypeScript,      *)
(* docs/步骤6) and validate_chrome_path_detailed (Python,                  *)
(* documentation/步骤4).                                                   *)
(***************************************************************************)
EXTENDS Integers, Sequences, FiniteSets, TLC

VARIABLES
    now,          \* Date.now(), in ms
    defaultTTL,   \* SimpleCache.defaultTTL of the instance
    cache,        \* SimpleCache.cache : Map key -> {data, expiry}
    lastOp,       \* the cache operation just executed and what it returned
    expiredRead,  \* keys whose entry a get found expired, no set since
    lastSet,      \* per key: the most recent set, if no delete or clear came after it
                  \* (followed only as long as the clock has never been set back)
    backwards     \* the clock has been set back at some time

cacheVars == <<defaultTTL, cache, lastOp, expiredRead, lastSet, backwards>>

VARIABLES
    rpc,          \* apiCallWithRetry: "idle", "calling" (awaiting apiCall()),
                  \* "sleeping" (awaiting the setTimeout), "returned", "thrown"
    attempt,      \* the loop variable
    retryDelay,   \* the parameter, doubled after every sleep
    maxRetries,   \* the parameter
    lastError,    \* the local lastError
    rOutcome,     \* what the call returned or threw
    rCalls,       \* number of apiCall() invocations of this call
    rSleeps,      \* the delays slept by this call, in order
    rErrors,      \* the errors caught by this call, in order
    rBase         \* the retryDelay argument this call was given

retryVars == <<rpc, attempt, retryDelay, maxRetries, lastError, rOutcome,
               rCalls, rSleeps, rErrors, rBase>>

VARIABLES
    connectionStates,   \* ConnectionStateManager.connectionStates : Map service -> state
    reconnectAttempts,  \* ConnectionStateManager.reconnectAttempts : Map service -> number
    lastConn,           \* the manager operation just executed, what it returned and
                        \* the attempts of its service before it (was)
    incs,               \* per service: incrementReconnectAttempts calls since the
                        \* attempts of the service were last cleared
    lastStatus          \* per service: the state given to the most recent
                        \* setConnectionState of the service ("none": never called)

connVars == <<connectionStates, reconnectAttempts, lastConn, incs, lastStatus>>

VARIABLES
    vIn,      \* validate_chrome_path_detailed: the path, the filesystem and the host
    vpc,      \* "ready" before the call, "done" after it
    vReport,  \* the dict the call returned
    vBasic    \* validate_chrome_path on the same path and filesystem: the dict it
              \* returned (done: it has been called)

valVars == <<vIn, vpc, vReport, vBasic>>

VARIABLES
    ppc,          \* the caller of the status API: "idle", "fetching" (inside
                  \* apiCallWithRetry), "reconnectSleep" (awaiting the setTimeout of
                  \* checkConnectionWithRecovery), "done"
    pEntry,       \* the method called: "status" = AxiosClient.getAdsPowerStatus,
                  \* "recover" = AdsPowerConnectionManager.checkConnectionWithRecovery
    pUseCache,    \* the useCache argument of getAdsPowerStatus
    depth,        \* activations of checkConnectionWithRecovery whose promise is
                  \* not settled yet
    pOutcome,     \* what the call returned or threw
    inWindow,     \* the call started with the last cache write at most StatusTTL ago
    callProv,     \* requests sent to the provider by this call
    connTrace,    \* the states this call passed to setConnectionState, in order
    incTrace,     \* the counts incrementReconnectAttempts returned to this call
    reconnSleeps, \* the reconnection delays of this call, in order
    callNo,       \* 0 before the first call, 1 during and after it, 2 from the second on
    prev,         \* the call before this one, as far as it matters to this one
    cleared,      \* clearBrowserCache ran since the last call ended
    writtenAt,    \* when adsPowerStatusCache.set last ran (-1: never)
    provHist,     \* the provider's answers since the start: the number of leading
                  \* retryable failures and the first answer after them
    lastFetch,    \* how the last fetch of this call (apiCallWithRetry inside
                  \* getAdsPowerStatus) ended, if no other has started since
    connAtStart,  \* the maps of the ConnectionStateManager when this call started
    freshAtStart, \* the status cache held a fresh entry when this call started
    cancelled     \* the caller has given up this call while it was pending

pollVars == <<ppc, pEntry, pUseCache, depth, pOutcome, inWindow, callProv,
              connTrace, incTrace, reconnSleeps, callNo, prev, cleared, writtenAt,
              provHist, lastFetch, connAtStart, freshAtStart, cancelled>>

VARIABLES
    cpc,        \* per caller: "idle", "calling" (a request is pending), "retrySleep",
                \* "reconnectSleep" (a setTimeout is pending), "done"
    cEntry,     \* per caller: the method called ("status" / "recover")
    cUseCache,  \* per caller: the useCache argument
    cAttempt,   \* per caller: the loop variable of its apiCallWithRetry
    cOutcome,   \* per caller: what its call returned or threw
    cOverlap,   \* per caller: another call was pending at some time during this call
    cAllowed    \* per caller: shouldAttemptReconnect(service) as it stood when the
                \* pending fetch of its checkConnectionWithRecovery was started

concVars == <<cpc, cEntry, cUseCache, cAttempt, cOutcome, cOverlap, cAllowed>>

vars == <<now, cacheVars, retryVars, connVars, valVars, pollVars, concVars>>

\* what an operation of one component leaves alone
exceptCache == <<retryVars, connVars, valVars, pollVars, concVars>>

exceptRetry == <<cacheVars, connVars, valVars, pollVars, concVars>>

exceptConn == <<now, cacheVars, retryVars, valVars, pollVars, concVars>>

exceptVal == <<now, cacheVars, retryVars, connVars, pollVars, concVars>>

(***************************************************************************)
(* Bounds of the model                                                     *)
(***************************************************************************)
MaxClock == 120000

\* the clock of the status client specification
PollMaxClock == 45000

\* clock movements of the cache specification (the wall clock may be set back)
ClockSteps == {-20000, 20000}

Keys == {"adspower_status", "chrome_path_x"}

Data == {"d1", "d2"}

(***************************************************************************)
(* Program constants                                                       *)
(***************************************************************************)
StatusTTL == 30000

ValidationTTL == 60000

\* an omitted optional number argument (undefined)
Undefined == -1

\* explicit ttl arguments tried, besides the omitted one
TTLs == {0, 20000}

(***************************************************************************)
(* JavaScript Map                                                          *)
(***************************************************************************)
EmptyMap == <<>>

MapHas(m, k) == k \in DOMAIN m

MapSet(m, k, v) == [x \in (DOMAIN m) \cup {k} |-> IF x = k THEN v ELSE m[x]]

MapDelete(m, k) == [x \in (DOMAIN m) \ {k} |-> m[x]]

(***************************************************************************)
(* SimpleCache                                                             *)
(***************************************************************************)
\* ttl || this.defaultTTL : undefined and 0 are falsy
TtlOrDefault(ttl, dflt) == IF ttl = Undefined \/ ttl = 0 THEN dflt ELSE ttl

\* a set that keeps the expiry of the entry it replaces
CacheSet_keepsExpiry(c, key, data, ttl, dflt, t) ==
    MapSet(c, key, [data |-> data,
                    expiry |-> IF MapHas(c, key) THEN c[key].expiry
                               ELSE t + TtlOrDefault(ttl, dflt)])

\* SimpleCache.set
CacheSet(c, key, data, ttl, dflt, t) ==
    MapSet(c, key, [data |-> data, expiry |-> t + TtlOrDefault(ttl, dflt)])

\* the entry get finds expired (and deletes)
CacheExpired(c, key, t) == MapHas(c, key) /\ t > c[key].expiry

\* a get that leaves the expired entry in the map
CacheAfterGet_keepsExpired(c, key, t) == c

\* a get that renews the expiry of the entry it returns (sliding expiry)
CacheAfterGet_renews(c, key, t) ==
    IF ~MapHas(c, key) THEN c
    ELSE IF t > c[key].expiry THEN MapDelete(c, key)
    ELSE MapSet(c, key, [data |-> c[key].data, expiry |-> t + StatusTTL])

\* SimpleCache.get : the map after the call
CacheAfterGet(c, key, t) == IF CacheExpired(c, key, t) THEN MapDelete(c, key) ELSE c

\* SimpleCache.get : whether it returns data (not null)
CacheGetFound(c, key, t) == MapHas(c, key) /\ ~(t > c[key].expiry)

\* SimpleCache.delete
CacheDelete(c, key) == MapDelete(c, key)

\* SimpleCache.clear
CacheClear(c) == EmptyMap

NoOp == [op |-> "none", key |-> "", found |-> FALSE, data |-> ""]

\* no set of the key is in force
NoSet == [live |-> FALSE, data |-> "", expiry |-> 0, over |-> FALSE]

CacheInit ==
    /\ defaultTTL \in {StatusTTL, ValidationTTL}
    /\ cache = EmptyMap
    /\ lastOp = NoOp
    /\ expiredRead = {}
    /\ lastSet = [k \in Keys |-> NoSet]
    /\ backwards = FALSE

CSet(key, data, ttl) ==
    /\ cache' = CacheSet(cache, key, data, ttl, defaultTTL, now)
    /\ lastOp' = [op |-> "set", key |-> key, found |-> FALSE, data |-> data]
    /\ expiredRead' = expiredRead \ {key}
    /\ lastSet' = IF backwards THEN lastSet
                   ELSE [lastSet EXCEPT ![key] =
                            [live |-> TRUE, data |-> data,
                             expiry |-> now + TtlOrDefault(ttl, defaultTTL),
                             over |-> MapHas(cache, key) /\ cache[key].data # data]]
    /\ UNCHANGED <<now, defaultTTL, backwards, exceptCache>>

CGet(key) ==
    /\ cache' = CacheAfterGet(cache, key, now)
    /\ lastOp' = [op |-> "get", key |-> key,
                  found |-> CacheGetFound(cache, key, now),
                  data |-> IF CacheGetFound(cache, key, now) THEN cache[key].data ELSE ""]
    /\ expiredRead' = IF CacheExpired(cache, key, now)
                      THEN expiredRead \cup {key} ELSE expiredRead
    /\ UNCHANGED <<now, defaultTTL, lastSet, backwards, exceptCache>>

CDelete(key) ==
    /\ cache' = CacheDelete(cache, key)
    /\ lastOp' = [op |-> "delete", key |-> key, found |-> FALSE, data |-> ""]
    /\ lastSet' = [lastSet EXCEPT ![key] = NoSet]
    /\ UNCHANGED <<now, defaultTTL, expiredRead, backwards, exceptCache>>

CClear ==
    /\ cache' = CacheClear(cache)
    /\ lastOp' = [op |-> "clear", key |-> "", found |-> FALSE, data |-> ""]
    /\ lastSet' = [k \in Keys |-> NoSet]
    /\ UNCHANGED <<now, defaultTTL, expiredRead, backwards, exceptCache>>

ClockMove(d) ==
    /\ now + d >= 0
    /\ now + d <= MaxClock
    /\ now' = now + d
    /\ lastOp' = NoOp
    /\ backwards' = (backwards \/ d < 0)
    /\ lastSet' = IF d < 0 THEN [k \in Keys |-> NoSet] ELSE lastSet
    /\ UNCHANGED <<defaultTTL, cache, expiredRead, exceptCache>>

NextCache ==
    \/ \E k \in Keys, d \in Data, ttl \in TTLs \cup {Undefined} : CSet(k, d, ttl)
    \/ \E k \in Keys : CGet(k)
    \/ \E k \in Keys : CDelete(k)
    \/ CClear
    \/ \E d \in ClockSteps : ClockMove(d)

(***************************************************************************)
(* Errors and values                                                       *)
(***************************************************************************)
\* an axios error without a response (transport-level failure)
NetworkError == [axios |-> TRUE, response |-> FALSE, status |-> 0]

\* an axios error carrying a response with the given status
HttpError(s) == [axios |-> TRUE, response |-> TRUE, status |-> s]

\* an error that is not an axios error
PlainError == [axios |-> FALSE, response |-> FALSE, status |-> 0]

\* the value of an unassigned error variable
NoError == [axios |-> FALSE, response |-> FALSE, status |-> -1]

HttpStatuses == {400, 404, 429, 499, 500, 503, 599, 600}

Errors == {NetworkError, PlainError} \cup {HttpError(s) : s \in HttpStatuses}

\* AdsPowerStatus values the provider can answer with
StatusValues == {[available |-> TRUE, message |-> "ok-a"],
                 [available |-> TRUE, message |-> "ok-b"],
                 [available |-> FALSE, message |-> "not running"]}

NoValue == [available |-> FALSE, message |-> ""]

NoOutcome == [kind |-> "none", val |-> NoValue, err |-> NoError]

Returned(v) == [kind |-> "value", val |-> v, err |-> NoError]

Thrown(e) == [kind |-> "error", val |-> NoValue, err |-> e]

(***************************************************************************)
(* apiCallWithRetry / shouldRetry                                          *)
(* The suspension points are the await of apiCall() and the await of the   *)
(* setTimeout; a sleep is recorded with the delay it asked for, and how    *)
(* long it lasts on the clock is left to Tick.                             *)
(***************************************************************************)
DefaultMaxRetries == 3

DefaultRetryDelay == 1000

\* a predicate that retries client errors too
shouldRetry_any4xx(e) == e.axios

\* a predicate that takes 429 for a client error like the others
shouldRetry_no429(e) ==
    IF ~e.axios THEN FALSE
    ELSE IF ~e.response THEN TRUE
    ELSE e.status >= 500 /\ e.status < 600

\* shouldRetry(error); the call this.shouldRetry(error) in apiCallWithRetry is
\* taken to reach this function
shouldRetry(e) ==
    IF ~e.axios THEN FALSE
    ELSE IF ~e.response THEN TRUE
    ELSE IF e.status >= 500 /\ e.status < 600 THEN TRUE
    ELSE IF e.status = 429 THEN TRUE
    ELSE FALSE

\* a loop that gives up one retry early
RetryAgain_oneShort(att, maxR, e) == att < maxR - 1 /\ shouldRetry(e)

\* the condition of the if in the catch block
RetryAgain(att, maxR, e) == att < maxR /\ shouldRetry(e)

\* a delay that is not doubled
NextDelay_constant(d) == d

\* retryDelay *= 2
NextDelay(d) == d * 2

RetryIdle ==
    /\ rpc = "idle"
    /\ attempt = 0
    /\ retryDelay = 0
    /\ maxRetries = 0
    /\ lastError = NoError
    /\ rOutcome = NoOutcome
    /\ rCalls = 0
    /\ rSleeps = <<>>
    /\ rErrors = <<>>
    /\ rBase = 0

\* entry of apiCallWithRetry up to the first await
RetryBegin(maxR, delay) ==
    /\ attempt' = 0
    /\ retryDelay' = delay
    /\ maxRetries' = maxR
    /\ lastError' = NoError
    /\ rSleeps' = <<>>
    /\ rErrors' = <<>>
    /\ rBase' = delay
    /\ IF 0 <= maxR
       THEN rpc' = "calling" /\ rCalls' = 1 /\ rOutcome' = NoOutcome
       ELSE rpc' = "thrown" /\ rCalls' = 0 /\ rOutcome' = Thrown(NoError)

\* apiCall() resolved: return await apiCall()
RetryResolve(v) ==
    /\ rpc = "calling"
    /\ rpc' = "returned"
    /\ rOutcome' = Returned(v)
    /\ UNCHANGED <<attempt, retryDelay, maxRetries, lastError, rCalls, rSleeps, rErrors,
                   rBase>>

\* apiCall() rejected: the catch block up to the sleep or the throw
RetryReject(e) ==
    /\ rpc = "calling"
    /\ lastError' = e
    /\ rErrors' = Append(rErrors, e)
    /\ IF RetryAgain(attempt, maxRetries, e)
       THEN /\ rpc' = "sleeping"
            /\ rSleeps' = Append(rSleeps, retryDelay)
            /\ rOutcome' = rOutcome
       ELSE /\ rpc' = "thrown"
            /\ rOutcome' = Thrown(e)
            /\ rSleeps' = rSleeps
    /\ UNCHANGED <<attempt, retryDelay, maxRetries, rCalls, rBase>>

\* a loop that goes round without counting the attempt
RetryWake_sameAttempt ==
    /\ rpc = "sleeping"
    /\ retryDelay' = NextDelay(retryDelay)
    /\ attempt' = attempt
    /\ rpc' = "calling"
    /\ rCalls' = rCalls + 1
    /\ UNCHANGED <<maxRetries, lastError, rSleeps, rErrors, rBase, rOutcome>>

\* the setTimeout fired: double the delay, next iteration, next apiCall()
RetryWake ==
    /\ rpc = "sleeping"
    /\ retryDelay' = NextDelay(retryDelay)
    /\ attempt' = attempt + 1
    /\ IF attempt + 1 <= maxRetries
       THEN rpc' = "calling" /\ rCalls' = rCalls + 1 /\ rOutcome' = rOutcome
       ELSE rpc' = "thrown" /\ rCalls' = rCalls /\ rOutcome' = Thrown(lastError)
    /\ UNCHANGED <<maxRetries, lastError, rSleeps, rErrors, rBase>>

\* the activation of apiCallWithRetry has returned or thrown: its locals are gone
RetryGone ==
    /\ rpc' = "idle"
    /\ attempt' = 0
    /\ retryDelay' = 0
    /\ maxRetries' = 0
    /\ lastError' = NoError
    /\ rOutcome' = NoOutcome
    /\ rCalls' = 0
    /\ rSleeps' = <<>>
    /\ rErrors' = <<>>
    /\ rBase' = 0

(***************************************************************************)
(* ConnectionStateManager                                                  *)
(***************************************************************************)
Services == {"adspower", "svc2"}

maxReconnectAttempts == 5

\* increments the model follows a service through
MaxIncrements == 7

\* this.reconnectAttempts.get(service) || 0
AttemptsOf(ra, service) == IF MapHas(ra, service) THEN ra[service] ELSE 0

\* a setConnectionState that does not store the state
StatesAfterSet_dropped(cs, service, state) == cs

\* setConnectionState : the connectionStates map after the call
StatesAfterSet(cs, service, state) == MapSet(cs, service, state)

\* a setConnectionState that clears the attempts whatever the new state
AttemptsAfterSet_clearsAlways(ra, service, state) == MapDelete(ra, service)

\* setConnectionState : the reconnectAttempts map after the call
AttemptsAfterSet(ra, service, state) ==
    IF state = "online" THEN MapDelete(ra, service) ELSE ra

\* a getConnectionState that takes a service never seen for online
getConnectionState_unseenOnline(cs, service) ==
    IF MapHas(cs, service) THEN cs[service] ELSE "online"

\* getConnectionState : this.connectionStates.get(service) || 'offline'
getConnectionState(cs, service) == IF MapHas(cs, service) THEN cs[service] ELSE "offline"

\* an increment that computes the new count and does not store it
AttemptsAfterIncrement_notStored(ra, service) == ra

\* an increment that counts twice
AttemptsAfterIncrement_byTwo(ra, service) == MapSet(ra, service, AttemptsOf(ra, service) + 2)

\* incrementReconnectAttempts : the map after the call (the new count is returned)
AttemptsAfterIncrement(ra, service) == MapSet(ra, service, AttemptsOf(ra, service) + 1)

\* a bound check that is off by one
shouldAttemptReconnect_offByOne(ra, service) ==
    AttemptsOf(ra, service) <= maxReconnectAttempts

\* shouldAttemptReconnect
shouldAttemptReconnect(ra, service) == AttemptsOf(ra, service) < maxReconnectAttempts

\* a reset that forgets the attempts of every service
AttemptsAfterReset_all(ra, service) == EmptyMap

\* resetReconnectAttempts
AttemptsAfterReset(ra, service) == MapDelete(ra, service)

ConnInit ==
    /\ connectionStates = EmptyMap
    /\ reconnectAttempts = EmptyMap
    /\ lastConn = [op |-> "none", service |-> "", arg |-> "", ret |-> 0, ok |-> FALSE,
                   was |-> 0]
    /\ incs = [s \in Services |-> 0]
    /\ lastStatus = [s \in Services |-> "none"]

SetState(service, state) ==
    /\ connectionStates' = StatesAfterSet(connectionStates, service, state)
    /\ reconnectAttempts' = AttemptsAfterSet(reconnectAttempts, service, state)
    /\ lastConn' = [op |-> "setState", service |-> service, arg |-> state,
                    ret |-> 0, ok |-> FALSE, was |-> AttemptsOf(reconnectAttempts, service)]
    /\ incs' = IF state = "online" THEN [incs EXCEPT ![service] = 0] ELSE incs
    /\ lastStatus' = [lastStatus EXCEPT ![service] = state]
    /\ UNCHANGED exceptConn

GetState(service) ==
    /\ lastConn' = [op |-> "getState", service |-> service,
                    arg |-> getConnectionState(connectionStates, service),
                    ret |-> 0, ok |-> FALSE, was |-> AttemptsOf(reconnectAttempts, service)]
    /\ UNCHANGED <<connectionStates, reconnectAttempts, incs, lastStatus, exceptConn>>

IncrementAttempts(service) ==
    /\ incs[service] < MaxIncrements
    /\ reconnectAttempts' = AttemptsAfterIncrement(reconnectAttempts, service)
    /\ lastConn' = [op |-> "incrementAttempts", service |-> service, arg |-> "",
                    ret |-> AttemptsOf(reconnectAttempts', service), ok |-> FALSE,
                    was |-> AttemptsOf(reconnectAttempts, service)]
    /\ incs' = [incs EXCEPT ![service] = @ + 1]
    /\ UNCHANGED <<connectionStates, lastStatus, exceptConn>>

ShouldAttempt(service) ==
    /\ lastConn' = [op |-> "shouldAttemptReconnect", service |-> service, arg |-> "",
                    ret |-> 0, ok |-> shouldAttemptReconnect(reconnectAttempts, service),
                    was |-> AttemptsOf(reconnectAttempts, service)]
    /\ UNCHANGED <<connectionStates, reconnectAttempts, incs, lastStatus, exceptConn>>

ResetAttempts(service) ==
    /\ reconnectAttempts' = AttemptsAfterReset(reconnectAttempts, service)
    /\ lastConn' = [op |-> "resetAttempts", service |-> service, arg |-> "",
                    ret |-> 0, ok |-> FALSE, was |-> AttemptsOf(reconnectAttempts, service)]
    /\ incs' = [incs EXCEPT ![service] = 0]
    /\ UNCHANGED <<connectionStates, lastStatus, exceptConn>>

(***************************************************************************)
(* validate_chrome_path_detailed                                           *)
(***************************************************************************)
\* hosts: importlib.util.find_spec('winreg') finds a module on Windows only
Hosts == {"windows", "linux", "darwin"}

Suffixes == {"", ".exe", ".EXE", ".sh"}

\* st_size values: empty, exactly 10 MB, one byte more, 200 MB
Sizes == {0, 10 * 1024 * 1024, 10 * 1024 * 1024 + 1, 200 * 1024 * 1024}

\* the bytes f.read(4) returns: PE ("MZ"), ELF, Mach-O, a script, a 1-byte file,
\* an empty file
Headers == {<<77, 90, 144, 0>>, <<127, 69, 76, 70>>, <<207, 250, 237, 254>>,
            <<35, 33, 47, 98>>, <<77>>, <<>>}

\* path.exists() answers, or raises (e.g. PermissionError on a parent directory)
ExistsOutcomes == {"true", "false", "raise"}

ValInputs ==
    [exists : ExistsOutcomes, isFile : BOOLEAN, suffix : Suffixes, host : Hosts,
     statOk : BOOLEAN, size : Sizes, openOk : BOOLEAN, header : Headers]

\* a filesystem the path can really name: nothing to stat or open unless a regular
\* file exists; unused fields are fixed
ValInputOk(i) ==
    /\ (i.exists # "true") => ~i.isFile
    /\ ~i.isFile => (i.suffix = "" /\ i.statOk /\ i.size = 0 /\ i.openOk /\ i.header = <<>>)
    /\ ~i.statOk => i.size = 0
    /\ ~i.openOk => i.header = <<>>

\* str.lower() of the suffixes tried
Lower(x) == IF x = ".EXE" THEN ".exe" ELSE x

\* entries of validation_result["checks"]
BoolCheck(b) == [kind |-> "bool", value |-> b]

SizeCheck(reasonable) == [kind |-> "size", value |-> reasonable]

ErrorCheck == [kind |-> "error", value |-> FALSE]

\* Python truth value of an entry: a non-empty dict is true
Truthy(c) == IF c.kind = "bool" THEN c.value ELSE TRUE

\* checks.get(name, False), as all() reads it
GetTruth(checks, name) == IF MapHas(checks, name) THEN Truthy(checks[name]) ELSE FALSE

\* checks.get("file_size", {}).get("reasonable", False)
GetReasonable(checks) ==
    IF MapHas(checks, "file_size") /\ checks["file_size"].kind = "size"
    THEN checks["file_size"].value ELSE FALSE

\* expected_suffix = '.exe' if importlib.util.find_spec('winreg') else ''
\* (the name importlib is taken to be bound in the module)
ExpectedSuffix(host) == IF host = "windows" THEN ".exe" ELSE ""

\* an extension check that wants the expected suffix and nothing else
ExtensionValid_strict(suffix, host) == Lower(suffix) = ExpectedSuffix(host)

\* extension_valid = suffix == expected_suffix or not suffix
ExtensionValid(suffix, host) == Lower(suffix) = ExpectedSuffix(host) \/ Lower(suffix) = ""

\* a size check that accepts exactly 10 MB
SizeReasonable_atLeast(size) == size >= 10 * 1024 * 1024

\* size_reasonable = file_size / (1024 * 1024) > 10
SizeReasonable(size) == size > 10 * 1024 * 1024

\* header[:2] == b'MZ'
HeaderIsMZ(header) == Len(header) >= 2 /\ SubSeq(header, 1, 2) = <<77, 90>>

\* check 1 and 2
ChecksA(i) ==
    MapSet(MapSet(EmptyMap, "exists", BoolCheck(i.exists = "true")),
           "is_file", BoolCheck(i.exists = "true" /\ i.isFile))

\* an extension check that runs whether or not the path is a file
ChecksB_unguarded(i, c) ==
    MapSet(c, "extension", BoolCheck(ExtensionValid(i.suffix, i.host)))

\* check 3, run only if is_file
ChecksB(i, c) ==
    IF i.isFile THEN MapSet(c, "extension", BoolCheck(ExtensionValid(i.suffix, i.host)))
    ELSE c

\* check 4, run only if is_file
ChecksC(i, c) ==
    IF i.isFile
    THEN MapSet(c, "file_size",
                IF i.statOk THEN SizeCheck(SizeReasonable(i.size)) ELSE ErrorCheck)
    ELSE c

\* check 5, run only if is_file
ChecksD(i, c) ==
    IF i.isFile
    THEN MapSet(c, "executable_format",
                IF i.openOk THEN BoolCheck(HeaderIsMZ(i.header)) ELSE ErrorCheck)
    ELSE c

\* validation_result["checks"] at the end of the try block
ChecksOf(i) == ChecksD(i, ChecksC(i, ChecksB(i, ChecksA(i))))

\* validation_result["suggestions"], in the order the checks append them
SuggestionsOf(i) ==
    (IF i.exists # "true" THEN <<"check the path">> ELSE <<>>)
    \o (IF i.exists = "true" /\ ~i.isFile THEN <<"path is a directory">> ELSE <<>>)
    \o (IF i.isFile /\ ~ExtensionValid(i.suffix, i.host) THEN <<"wrong extension">> ELSE <<>>)
    \o (IF i.isFile /\ i.statOk /\ ~SizeReasonable(i.size) THEN <<"size abnormal">> ELSE <<>>)
    \o (IF i.isFile /\ i.openOk /\ ~HeaderIsMZ(i.header) THEN <<"not an executable">> ELSE <<>>)

\* all_checks_passed
AllChecksPassed(checks) ==
    /\ GetTruth(checks, "exists")
    /\ GetTruth(checks, "is_file")
    /\ GetTruth(checks, "extension")
    /\ GetReasonable(checks)
    /\ GetTruth(checks, "executable_format")

\* the filesystem calls the function made, in order
FsCallsOf(i) ==
    <<"exists">>
    \o (IF i.exists = "true" THEN <<"is_file">> ELSE <<>>)
    \o (IF i.isFile THEN <<"stat", "open">> ELSE <<>>)

\* the dict validate_chrome_path_detailed returns
validate_chrome_path_detailed(i) ==
    IF i.exists = "raise"
    THEN [valid |-> FALSE, checks |-> EmptyMap, suggestions |-> <<>>,
          error |-> TRUE, message |-> "error", fsCalls |-> <<"exists">>]
    ELSE [valid |-> AllChecksPassed(ChecksOf(i)), checks |-> ChecksOf(i),
          suggestions |-> SuggestionsOf(i), error |-> FALSE,
          message |-> IF AllChecksPassed(ChecksOf(i)) THEN "passed" ELSE "failed",
          fsCalls |-> FsCallsOf(i)]

\* validate_chrome_path: path.suffix.lower() == '.exe' or not path.suffix
BasicExtensionOk(suffix) == Lower(suffix) = ".exe" \/ suffix = ""

\* a size test that wants the 100 MB the comment speaks of
BasicSizeOk_hundred(size) == ~(size < 100 * 1024 * 1024)

\* validate_chrome_path: not (file_size_mb < 10)
BasicSizeOk(size) == ~(size < 10 * 1024 * 1024)

\* the dict validate_chrome_path returns
validate_chrome_path(i) ==
    IF i.exists = "raise"
    THEN [done |-> TRUE, valid |-> FALSE, message |-> "error"]
    ELSE IF ~(i.exists = "true" /\ i.isFile)
    THEN [done |-> TRUE, valid |-> FALSE, message |-> "invalid or missing"]
    ELSE IF ~BasicExtensionOk(i.suffix)
    THEN [done |-> TRUE, valid |-> FALSE, message |-> "extension mismatch"]
    ELSE IF ~i.statOk
    THEN [done |-> TRUE, valid |-> FALSE, message |-> "error"]
    ELSE IF ~BasicSizeOk(i.size)
    THEN [done |-> TRUE, valid |-> FALSE, message |-> "size abnormal"]
    ELSE [done |-> TRUE, valid |-> TRUE, message |-> "valid"]

NoBasic == [done |-> FALSE, valid |-> FALSE, message |-> ""]

NoReport == [valid |-> FALSE, checks |-> EmptyMap, suggestions |-> <<>>,
             error |-> FALSE, message |-> "", fsCalls |-> <<>>]

ValIdle ==
    /\ vIn = [exists |-> "false", isFile |-> FALSE, suffix |-> "", host |-> "windows",
              statOk |-> TRUE, size |-> 0, openOk |-> TRUE, header |-> <<>>]
    /\ vpc = "ready"
    /\ vReport = NoReport
    /\ vBasic = NoBasic

ValInit ==
    /\ vIn \in {i \in ValInputs : ValInputOk(i)}
    /\ vpc = "ready"
    /\ vReport = NoReport
    /\ vBasic = NoBasic

Validate ==
    /\ vpc = "ready"
    /\ vpc' = "done"
    /\ vReport' = validate_chrome_path_detailed(vIn)
    /\ UNCHANGED <<vIn, vBasic, exceptVal>>

ValidateBasic ==
    /\ ~vBasic.done
    /\ vBasic' = validate_chrome_path(vIn)
    /\ UNCHANGED <<vIn, vpc, vReport, exceptVal>>

(***************************************************************************)
(* AxiosClient.getAdsPowerStatus (cached) and                              *)
(* AdsPowerConnectionManager.checkConnectionWithRecovery                   *)
(***************************************************************************)
\* const cacheKey = 'adspower_status'
StatusKey == "adspower_status"

\* const service = 'adspower'
AdsPower == "adspower"

ReconnectBaseDelay == 1000

ReconnectDelayCap == 30000

Min(a, b) == IF a < b THEN a ELSE b

\* a delay without the cap
ReconnectDelay_uncapped(attempts) == ReconnectBaseDelay * 2 ^ attempts

\* Math.min(1000 * 2 ** attempts, 30000)
ReconnectDelay(attempts) == Min(ReconnectBaseDelay * 2 ^ attempts, ReconnectDelayCap)

\* the error thrown for a status with available = false: new Error(status.message)
UnavailableError == [axios |-> FALSE, response |-> FALSE, status |-> -2]

\* new Error(`...已达到最大重试次数: ${error}`)
Exhausted(e) == [kind |-> "exhausted", val |-> NoValue, err |-> e]

\* a fetch that leaves an entry already in the cache alone (first writer wins)
StatusCacheSet_firstWins(c, status, dflt, t) ==
    IF MapHas(c, StatusKey) THEN c ELSE CacheSet(c, StatusKey, status, Undefined, dflt, t)

\* a fetch that caches the status only when the service is available
StatusCacheSet_availableOnly(c, status, dflt, t) ==
    IF status.available THEN CacheSet(c, StatusKey, status, Undefined, dflt, t) ELSE c

\* a fetch that returns the status without caching it
StatusCacheSet_notStored(c, status, dflt, t) == c

\* this.adsPowerStatusCache.set(cacheKey, status)
StatusCacheSet(c, status, dflt, t) == CacheSet(c, StatusKey, status, Undefined, dflt, t)

\* a lookup that never finds the entry
StatusCacheHit_never(c, useCache, t) == FALSE

\* if (useCache) { cached = get(cacheKey); if (cached) return cached }
StatusCacheHit(c, useCache, t) == useCache /\ CacheGetFound(c, StatusKey, t)

\* errors the provider answers with in the model
PollErrors == {NetworkError, HttpError(404)}

\* time passing between the steps of the caller
PollTicks == {15000}

\* a failure the retry policy is meant to retry: no response, 5xx or 429
TransientFailure(e) ==
    e.axios /\ (~e.response \/ (e.status >= 500 /\ e.status < 600) \/ e.status = 429)

NoHist == [fails |-> 0, then |-> "none", val |-> NoValue]

\* from the second call on the provider's first answers are no longer followed
VoidHist == [fails |-> 0, then |-> "void", val |-> NoValue]

\* provHist after the provider answered with a value
HistValue(h, v) ==
    IF h.then = "none"
    THEN [h EXCEPT !.then = IF v.available THEN "available" ELSE "unavailable", !.val = v]
    ELSE h

\* provHist after the provider answered with an error
HistError(h, e) ==
    IF h.then # "none" THEN h
    ELSE IF TransientFailure(e) /\ h.fails < DefaultMaxRetries + 2
    THEN [h EXCEPT !.fails = @ + 1]
    ELSE [h EXCEPT !.then = "other"]

NoPrev == [valid |-> FALSE, val |-> NoValue, prov |-> 0]

\* what the call that just ended leaves to the next one
PrevOf ==
    IF ppc = "done" /\ pEntry = "status" /\ pUseCache /\ pOutcome.kind = "value" /\ ~cleared
    THEN [valid |-> TRUE, val |-> pOutcome.val, prov |-> callProv]
    ELSE NoPrev

PollInit ==
    /\ ppc = "idle"
    /\ pEntry = "none"
    /\ pUseCache = FALSE
    /\ depth = 0
    /\ pOutcome = NoOutcome
    /\ inWindow = FALSE
    /\ callProv = 0
    /\ connTrace = <<>>
    /\ incTrace = <<>>
    /\ reconnSleeps = <<>>
    /\ callNo = 0
    /\ prev = NoPrev
    /\ cleared = FALSE
    /\ writtenAt = -1
    /\ provHist = NoHist
    /\ lastFetch = NoOutcome
    /\ connAtStart = [states |-> EmptyMap, attempts |-> EmptyMap]
    /\ freshAtStart = FALSE
    /\ cancelled = FALSE

\* the ghost variables of a call that starts
CallBegins(entry, useCache) ==
    /\ ppc \in {"idle", "done"}
    /\ pEntry' = entry
    /\ pUseCache' = useCache
    /\ inWindow' = (writtenAt >= 0 /\ now <= writtenAt + 30000)
    /\ connTrace' = <<>>
    /\ incTrace' = <<>>
    /\ reconnSleeps' = <<>>
    /\ callNo' = IF callNo = 0 THEN 1 ELSE 2
    /\ prev' = IF entry = "status" /\ useCache THEN PrevOf ELSE NoPrev
    /\ provHist' = IF callNo = 0 THEN provHist ELSE VoidHist
    /\ lastFetch' = NoOutcome
    /\ connAtStart' = [states |-> connectionStates, attempts |-> reconnectAttempts]
    /\ freshAtStart' = CacheGetFound(cache, StatusKey, now)
    /\ cancelled' = FALSE

\* the call ended with the outcome o
CallEnds(o) ==
    /\ ppc' = "done"
    /\ pOutcome' = o
    /\ depth' = 0
    /\ cleared' = FALSE

\* getAdsPowerStatus(useCache) called directly: up to the return of the cached
\* value or the first await
StartStatus(useCache) ==
    /\ CallBegins("status", useCache)
    /\ IF StatusCacheHit(cache, useCache, now)
       THEN /\ CallEnds(Returned(cache[StatusKey].data))
            /\ callProv' = 0
            /\ UNCHANGED <<cache, retryVars>>
       ELSE /\ cache' = IF useCache THEN CacheAfterGet(cache, StatusKey, now) ELSE cache
            /\ RetryBegin(DefaultMaxRetries, DefaultRetryDelay)
            /\ ppc' = "fetching"
            /\ callProv' = 1
            /\ pOutcome' = NoOutcome
            /\ UNCHANGED <<depth, cleared>>
    /\ UNCHANGED <<now, defaultTTL, lastOp, expiredRead, lastSet, backwards,
                   connVars, valVars, concVars, writtenAt>>

\* checkConnectionWithRecovery() called: up to the first await, inside
\* getAdsPowerStatus(false)
StartRecover ==
    /\ CallBegins("recover", FALSE)
    /\ RetryBegin(DefaultMaxRetries, DefaultRetryDelay)
    /\ ppc' = "fetching"
    /\ depth' = 1
    /\ callProv' = 1
    /\ pOutcome' = NoOutcome
    /\ UNCHANGED <<now, cacheVars, connVars, valVars, concVars, cleared, writtenAt>>

\* the catch block of checkConnectionWithRecovery, run with the error e
Recover(e) ==
    /\ connectionStates' = StatesAfterSet(connectionStates, AdsPower, "offline")
    /\ lastStatus' = [lastStatus EXCEPT ![AdsPower] = "offline"]
    /\ UNCHANGED lastConn
    /\ IF shouldAttemptReconnect(AttemptsAfterSet(reconnectAttempts, AdsPower, "offline"),
                                 AdsPower)
       THEN /\ reconnectAttempts' =
                   AttemptsAfterIncrement(
                       AttemptsAfterSet(reconnectAttempts, AdsPower, "offline"), AdsPower)
            /\ incs[AdsPower] < MaxIncrements
            /\ incs' = [incs EXCEPT ![AdsPower] = @ + 1]
            /\ ppc' = "reconnectSleep"
            /\ connTrace' = Append(connTrace, "offline")
            /\ incTrace' = Append(incTrace, AttemptsOf(reconnectAttempts', AdsPower))
            /\ reconnSleeps' =
                   Append(reconnSleeps, ReconnectDelay(AttemptsOf(reconnectAttempts', AdsPower)))
            /\ UNCHANGED <<pOutcome, depth, cleared>>
       ELSE /\ reconnectAttempts' = AttemptsAfterSet(reconnectAttempts, AdsPower, "offline")
            /\ CallEnds(Exhausted(e))
            /\ connTrace' = Append(connTrace, "offline")
            /\ UNCHANGED <<incs, incTrace, reconnSleeps>>

\* the try block of checkConnectionWithRecovery after getAdsPowerStatus returned
\* an available status
RecoverOnline(status) ==
    /\ connectionStates' = StatesAfterSet(connectionStates, AdsPower, "online")
    /\ reconnectAttempts' =
           AttemptsAfterReset(AttemptsAfterSet(reconnectAttempts, AdsPower, "online"), AdsPower)
    /\ incs' = [incs EXCEPT ![AdsPower] = 0]
    /\ lastStatus' = [lastStatus EXCEPT ![AdsPower] = "online"]
    /\ connTrace' = Append(connTrace, "online")
    /\ CallEnds(Returned(status))
    /\ UNCHANGED <<lastConn, incTrace, reconnSleeps>>

\* the provider answered the pending request with a status: apiCallWithRetry
\* returns it, getAdsPowerStatus caches and returns it, and (when called from
\* there) checkConnectionWithRecovery runs on to its return or its next await
ProviderAnswers(status) ==
    /\ ppc = "fetching"
    /\ rpc = "calling"
    /\ RetryGone
    /\ cache' = StatusCacheSet(cache, status, defaultTTL, now)
    /\ writtenAt' = now
    /\ provHist' = HistValue(provHist, status)
    /\ lastFetch' = Returned(status)
    /\ IF pEntry = "status"
       THEN /\ CallEnds(Returned(status))
            /\ UNCHANGED <<connVars, connTrace, incTrace, reconnSleeps>>
       ELSE IF status.available
       THEN RecoverOnline(status)
       ELSE Recover(UnavailableError)
    /\ UNCHANGED <<now, defaultTTL, lastOp, expiredRead, lastSet, backwards, valVars, concVars,
                   pEntry, pUseCache, inWindow, callProv, callNo, prev,
                   connAtStart, freshAtStart, cancelled>>

\* the provider failed the pending request: the catch block of apiCallWithRetry,
\* and when it throws, the callers' handling of the error
ProviderFails(e) ==
    /\ ppc = "fetching"
    /\ rpc = "calling"
    /\ IF RetryAgain(attempt, maxRetries, e) THEN RetryReject(e) ELSE RetryGone
    /\ provHist' = HistError(provHist, e)
    /\ lastFetch' = IF RetryAgain(attempt, maxRetries, e) THEN lastFetch ELSE Thrown(e)
    /\ IF RetryAgain(attempt, maxRetries, e)
       THEN UNCHANGED <<connVars, ppc, pOutcome, depth, cleared, connTrace,
                        incTrace, reconnSleeps>>
       ELSE IF pEntry = "status"
       THEN /\ CallEnds(Thrown(e))
            /\ UNCHANGED <<connVars, connTrace, incTrace, reconnSleeps>>
       ELSE Recover(e)
    /\ UNCHANGED <<now, cacheVars, valVars, concVars,
                   pEntry, pUseCache, inWindow, callProv, callNo, prev, writtenAt,
                   connAtStart, freshAtStart, cancelled>>

\* the retry setTimeout fired: the next attempt sends the next request
RetrySleepEnds ==
    /\ ppc = "fetching"
    /\ RetryWake
    /\ callProv' = callProv + 1
    /\ UNCHANGED <<now, cacheVars, connVars, valVars, concVars, ppc, pEntry, pUseCache, depth,
                   pOutcome, inWindow, connTrace, incTrace, reconnSleeps, callNo, prev,
                   cleared, writtenAt, provHist, lastFetch, connAtStart, freshAtStart, cancelled>>

\* the reconnection setTimeout fired: return this.checkConnectionWithRecovery(),
\* up to the first await of the new activation
ReconnectSleepEnds ==
    /\ ppc = "reconnectSleep"
    /\ depth' = depth + 1
    /\ RetryBegin(DefaultMaxRetries, DefaultRetryDelay)
    /\ ppc' = "fetching"
    /\ callProv' = callProv + 1
    /\ lastFetch' = NoOutcome
    /\ UNCHANGED <<now, cacheVars, connVars, valVars, concVars, pEntry, pUseCache,
                   pOutcome, inWindow, connTrace, incTrace, reconnSleeps, callNo, prev,
                   cleared, writtenAt, provHist, connAtStart, freshAtStart, cancelled>>

\* AxiosClient.clearBrowserCache
ClearBrowserCache ==
    /\ cache' = CacheClear(cache)
    /\ cleared' = TRUE
    /\ UNCHANGED <<now, defaultTTL, lastOp, expiredRead, lastSet, backwards,
                   retryVars, connVars, valVars, concVars,
                   ppc, pEntry, pUseCache, depth, pOutcome, inWindow, callProv,
                   connTrace, incTrace, reconnSleeps, callNo, prev, writtenAt, provHist,
                   lastFetch, connAtStart, freshAtStart, cancelled>>

\* the caller gives up a pending call (it closes, it loses interest). Neither
\* getAdsPowerStatus, apiCallWithRetry nor checkConnectionWithRecovery takes a
\* token or a signal, and the timers are not kept: nothing in the call sees it
Cancel ==
    /\ ppc \in {"fetching", "reconnectSleep"}
    /\ ~cancelled
    /\ cancelled' = TRUE
    /\ UNCHANGED <<now, cacheVars, retryVars, connVars, valVars, concVars, ppc, pEntry, pUseCache,
                   depth, pOutcome, inWindow, callProv, connTrace, incTrace, reconnSleeps,
                   callNo, prev, cleared, writtenAt, provHist, lastFetch, connAtStart,
                   freshAtStart>>

\* time passes, also while a request or a setTimeout is pending (a timer fires
\* when the runtime says so: the model records the delay asked for)
Tick(d) ==
    /\ now + d <= PollMaxClock
    /\ now' = now + d
    /\ UNCHANGED <<cacheVars, retryVars, connVars, valVars, concVars, pollVars>>

(***************************************************************************)
(* Several calls in flight at once. JavaScript runs one callback at a time: *)
(* a call runs from one await to the next without interruption, and calls   *)
(* interleave at their awaits (the request, the two setTimeouts). The calls *)
(* share axiosClient (the status cache) and one AdsPowerConnectionManager   *)
(* (the ConnectionStateManager).                                            *)
(***************************************************************************)
Callers == {"c1", "c2"}

ConcInit ==
    /\ cpc = [c \in Callers |-> "idle"]
    /\ cEntry = [c \in Callers |-> "none"]
    /\ cUseCache = [c \in Callers |-> FALSE]
    /\ cAttempt = [c \in Callers |-> 0]
    /\ cOutcome = [c \in Callers |-> NoOutcome]
    /\ cOverlap = [c \in Callers |-> FALSE]
    /\ cAllowed = [c \in Callers |-> FALSE]

\* the callers whose call has not settled
Pending == {c \in Callers : cpc[c] \in {"calling", "retrySleep", "reconnectSleep"}}

\* the callers with a request at the provider
InFlight == {c \in Callers : cpc[c] = "calling"}

\* caller c starts a call
ConcBegins(c, entry, useCache) ==
    /\ cpc[c] \in {"idle", "done"}
    /\ cEntry' = [cEntry EXCEPT ![c] = entry]
    /\ cUseCache' = [cUseCache EXCEPT ![c] = useCache]
    /\ cAttempt' = [cAttempt EXCEPT ![c] = 0]
    /\ cOverlap' = [x \in Callers |->
                       IF x = c THEN Pending # {}
                       ELSE IF x \in Pending THEN TRUE ELSE cOverlap[x]]

\* getAdsPowerStatus(useCache) called by c: up to the return of the cached value
\* or the first await
ConcStatus(c, useCache) ==
    /\ ConcBegins(c, "status", useCache)
    /\ IF StatusCacheHit(cache, useCache, now)
       THEN /\ cpc' = [cpc EXCEPT ![c] = "done"]
            /\ cOutcome' = [cOutcome EXCEPT ![c] = Returned(cache[StatusKey].data)]
            /\ cache' = cache
       ELSE /\ cpc' = [cpc EXCEPT ![c] = "calling"]
            /\ cOutcome' = [cOutcome EXCEPT ![c] = NoOutcome]
            /\ cache' = IF useCache THEN CacheAfterGet(cache, StatusKey, now) ELSE cache
    /\ cAllowed' = [cAllowed EXCEPT ![c] = FALSE]
    /\ UNCHANGED <<now, defaultTTL, lastOp, expiredRead, lastSet, backwards,
                   retryVars, connVars, valVars, pollVars>>

\* checkConnectionWithRecovery() called by c: up to the first await
ConcRecover(c) ==
    /\ ConcBegins(c, "recover", FALSE)
    /\ cpc' = [cpc EXCEPT ![c] = "calling"]
    /\ cOutcome' = [cOutcome EXCEPT ![c] = NoOutcome]
    /\ cAllowed' = [cAllowed EXCEPT ![c] = shouldAttemptReconnect(reconnectAttempts, AdsPower)]
    /\ UNCHANGED <<now, cacheVars, retryVars, connVars, valVars, pollVars>>

\* a catch block that acts on the answer shouldAttemptReconnect gave before the
\* fetch was awaited
ConcCatch_checkedBefore(c, e) ==
    /\ connectionStates' = StatesAfterSet(connectionStates, AdsPower, "offline")
    /\ IF cAllowed[c]
       THEN /\ reconnectAttempts' =
                   AttemptsAfterIncrement(
                       AttemptsAfterSet(reconnectAttempts, AdsPower, "offline"), AdsPower)
            /\ cpc' = [cpc EXCEPT ![c] = "reconnectSleep"]
            /\ cOutcome' = cOutcome
       ELSE /\ reconnectAttempts' = AttemptsAfterSet(reconnectAttempts, AdsPower, "offline")
            /\ cpc' = [cpc EXCEPT ![c] = "done"]
            /\ cOutcome' = [cOutcome EXCEPT ![c] = Exhausted(e)]

\* the catch block of checkConnectionWithRecovery, run by c with the error e: no
\* await between setConnectionState, shouldAttemptReconnect and
\* incrementReconnectAttempts
ConcCatch(c, e) ==
    /\ connectionStates' = StatesAfterSet(connectionStates, AdsPower, "offline")
    /\ IF shouldAttemptReconnect(AttemptsAfterSet(reconnectAttempts, AdsPower, "offline"),
                                 AdsPower)
       THEN /\ reconnectAttempts' =
                   AttemptsAfterIncrement(
                       AttemptsAfterSet(reconnectAttempts, AdsPower, "offline"), AdsPower)
            /\ cpc' = [cpc EXCEPT ![c] = "reconnectSleep"]
            /\ cOutcome' = cOutcome
       ELSE /\ reconnectAttempts' = AttemptsAfterSet(reconnectAttempts, AdsPower, "offline")
            /\ cpc' = [cpc EXCEPT ![c] = "done"]
            /\ cOutcome' = [cOutcome EXCEPT ![c] = Exhausted(e)]

\* the provider answered the request of c with a status
ConcAnswers(c, status) ==
    /\ cpc[c] = "calling"
    /\ cache' = StatusCacheSet(cache, status, defaultTTL, now)
    /\ cAttempt' = [cAttempt EXCEPT ![c] = 0]
    /\ IF cEntry[c] = "status"
       THEN /\ cpc' = [cpc EXCEPT ![c] = "done"]
            /\ cOutcome' = [cOutcome EXCEPT ![c] = Returned(status)]
            /\ UNCHANGED <<connectionStates, reconnectAttempts>>
       ELSE IF status.available
       THEN /\ connectionStates' = StatesAfterSet(connectionStates, AdsPower, "online")
            /\ reconnectAttempts' =
                   AttemptsAfterReset(AttemptsAfterSet(reconnectAttempts, AdsPower, "online"),
                                      AdsPower)
            /\ cpc' = [cpc EXCEPT ![c] = "done"]
            /\ cOutcome' = [cOutcome EXCEPT ![c] = Returned(status)]
       ELSE ConcCatch(c, UnavailableError)
    /\ UNCHANGED <<now, defaultTTL, lastOp, expiredRead, lastSet, backwards, retryVars,
                   lastConn, incs, lastStatus, valVars, pollVars,
                   cEntry, cUseCache, cOverlap, cAllowed>>

\* the provider failed the request of c
ConcFails(c, e) ==
    /\ cpc[c] = "calling"
    /\ IF RetryAgain(cAttempt[c], DefaultMaxRetries, e)
       THEN /\ cpc' = [cpc EXCEPT ![c] = "retrySleep"]
            /\ UNCHANGED <<connectionStates, reconnectAttempts, cOutcome, cAttempt>>
       ELSE /\ cAttempt' = [cAttempt EXCEPT ![c] = 0]
            /\ IF cEntry[c] = "status"
               THEN /\ cpc' = [cpc EXCEPT ![c] = "done"]
                    /\ cOutcome' = [cOutcome EXCEPT ![c] = Thrown(e)]
                    /\ UNCHANGED <<connectionStates, reconnectAttempts>>
               ELSE ConcCatch(c, e)
    /\ UNCHANGED <<now, cacheVars, retryVars, lastConn, incs, lastStatus, valVars, pollVars,
                   cEntry, cUseCache, cOverlap, cAllowed>>

\* the retry setTimeout of c fired: next attempt, next request
ConcRetryTimer(c) ==
    /\ cpc[c] = "retrySleep"
    /\ cAttempt' = [cAttempt EXCEPT ![c] = @ + 1]
    /\ cpc' = [cpc EXCEPT ![c] = "calling"]
    /\ UNCHANGED <<now, cacheVars, retryVars, connVars, valVars, pollVars,
                   cEntry, cUseCache, cOutcome, cOverlap, cAllowed>>

\* the reconnection setTimeout of c fired: return this.checkConnectionWithRecovery(),
\* up to the first await of the new activation
ConcReconnectTimer(c) ==
    /\ cpc[c] = "reconnectSleep"
    /\ cAttempt' = [cAttempt EXCEPT ![c] = 0]
    /\ cpc' = [cpc EXCEPT ![c] = "calling"]
    /\ cAllowed' = [cAllowed EXCEPT ![c] = shouldAttemptReconnect(reconnectAttempts, AdsPower)]
    /\ UNCHANGED <<now, cacheVars, retryVars, connVars, valVars, pollVars,
                   cEntry, cUseCache, cOutcome, cOverlap>>

(***************************************************************************)
(* Specification of the cache alone                                        *)
(***************************************************************************)
InitCache ==
    now = 0 /\ CacheInit /\ RetryIdle /\ ConnInit /\ ValIdle /\ PollInit
    /\ ConcInit

SpecCache == InitCache /\ [][NextCache]_vars

(***************************************************************************)
(* Specification of apiCallWithRetry alone: one call with any parameters   *)
(* and any behaviour of the operation                                      *)
(***************************************************************************)
RetryMaxRetries == -1 .. 3

RetryDelays == {1000, 16000}

ExecStart(maxR, delay) ==
    /\ rpc = "idle"
    /\ RetryBegin(maxR, delay)
    /\ UNCHANGED <<now, exceptRetry>>

OpSucceeds(v) == RetryResolve(v) /\ UNCHANGED <<now, exceptRetry>>

OpFails(e) == RetryReject(e) /\ UNCHANGED <<now, exceptRetry>>

SleepEnds == RetryWake /\ UNCHANGED <<now, exceptRetry>>

InitRetry ==
    now = 0 /\ CacheInit /\ defaultTTL = StatusTTL /\ RetryIdle /\ ConnInit /\ ValIdle /\ PollInit
    /\ ConcInit

NextRetry ==
    \/ \E m \in RetryMaxRetries, d \in RetryDelays : ExecStart(m, d)
    \/ \E v \in StatusValues : OpSucceeds(v)
    \/ \E e \in Errors : OpFails(e)
    \/ SleepEnds

SpecRetry == InitRetry /\ [][NextRetry]_vars

\* the same, with an operation that settles in the end (it resolves or rejects)
\* and a setTimeout that fires in the end
SpecRetryFair ==
    /\ InitRetry
    /\ [][NextRetry]_vars
    /\ WF_vars((\E v \in StatusValues : OpSucceeds(v)) \/ (\E e \in Errors : OpFails(e)))
    /\ WF_vars(SleepEnds)

(***************************************************************************)
(* Specification of the ConnectionStateManager alone: any sequence of its  *)
(* operations on any services                                              *)
(***************************************************************************)
InitConn ==
    now = 0 /\ CacheInit /\ defaultTTL = StatusTTL /\ RetryIdle /\ ConnInit /\ ValIdle /\ PollInit
    /\ ConcInit

NextConn ==
    \/ \E s \in Services, st \in {"online", "offline"} : SetState(s, st)
    \/ \E s \in Services : GetState(s)
    \/ \E s \in Services : IncrementAttempts(s)
    \/ \E s \in Services : ShouldAttempt(s)
    \/ \E s \in Services : ResetAttempts(s)

SpecConn == InitConn /\ [][NextConn]_vars

(***************************************************************************)
(* Specification of the validators: one call of each on any path,          *)
(* filesystem and host                                                     *)
(***************************************************************************)
InitValidator ==
    now = 0 /\ CacheInit /\ defaultTTL = StatusTTL /\ RetryIdle /\ ConnInit /\ ValInit /\ PollInit
    /\ ConcInit

NextValidator ==
    \/ Validate
    \/ ValidateBasic

SpecValidator == InitValidator /\ [][NextValidator]_vars

(***************************************************************************)
(* Specification of the status client: one caller making calls one after   *)
(* the other, against a provider that answers or fails as it likes         *)
(***************************************************************************)
InitPoller ==
    now = 0 /\ CacheInit /\ defaultTTL = StatusTTL /\ RetryIdle /\ ConnInit /\ ValIdle
    /\ PollInit /\ ConcInit

NextPoller ==
    \/ \E u \in BOOLEAN : StartStatus(u)
    \/ StartRecover
    \/ \E v \in StatusValues : ProviderAnswers(v)
    \/ \E e \in PollErrors : ProviderFails(e)
    \/ RetrySleepEnds
    \/ ReconnectSleepEnds
    \/ ClearBrowserCache
    \/ \E d \in PollTicks : Tick(d)

SpecPoller == InitPoller /\ [][NextPoller]_vars

(***************************************************************************)
(* Specification of checkConnectionWithRecovery during an outage: every     *)
(* request to the provider fails with an error the retry policy retries, so *)
(* every fetch fails after using up its retries. A pending request is       *)
(* answered (here: fails) in the end and a setTimeout fires in the end; the  *)
(* caller is free to call again or not.                                     *)
(***************************************************************************)
OutageErrors == {NetworkError, HttpError(503), HttpError(429)}

NextOutage ==
    \/ StartRecover
    \/ \E e \in OutageErrors : ProviderFails(e)
    \/ RetrySleepEnds
    \/ ReconnectSleepEnds

SpecOutage ==
    /\ InitPoller
    /\ [][NextOutage]_vars
    /\ WF_vars(\E e \in OutageErrors : ProviderFails(e))
    /\ WF_vars(RetrySleepEnds)
    /\ WF_vars(ReconnectSleepEnds)

(***************************************************************************)
(* Specification of the status client with a caller that may give up a     *)
(* pending call                                                            *)
(***************************************************************************)
NextCancel ==
    \/ \E u \in BOOLEAN : StartStatus(u)
    \/ StartRecover
    \/ \E v \in StatusValues : ProviderAnswers(v)
    \/ \E e \in PollErrors : ProviderFails(e)
    \/ RetrySleepEnds
    \/ ReconnectSleepEnds
    \/ Cancel

SpecCancel == InitPoller /\ [][NextCancel]_vars

(***************************************************************************)
(* Specification of the status client with two callers whose calls          *)
(* interleave at the awaits                                                 *)
(***************************************************************************)
NextConcurrent ==
    \/ \E c \in Callers, u \in BOOLEAN : ConcStatus(c, u)
    \/ \E c \in Callers : ConcRecover(c)
    \/ \E c \in Callers, v \in StatusValues : ConcAnswers(c, v)
    \/ \E c \in Callers, e \in PollErrors : ConcFails(c, e)
    \/ \E c \in Callers : ConcRetryTimer(c)
    \/ \E c \in Callers : ConcReconnectTimer(c)
    \/ \E d \in PollTicks : Tick(d)

SpecConcurrent == InitPoller /\ [][NextConcurrent]_vars

(***************************************************************************)
(* Specification of the status client of one service working on stores     *)
(* that something else uses for another service and another key: the       *)
(* operations of the ConnectionStateManager and of the cache on that other *)
(* service and key interleave with the steps of the call. The provider     *)
(* answers, or refuses with a status that is not retried.                  *)
(***************************************************************************)
OtherService == "svc2"

OtherKey == "chrome_path_x"

OtherData == {"d1"}

RefusedErrors == {HttpError(404)}

NextIsolation ==
    \/ StartRecover
    \/ \E v \in StatusValues : ProviderAnswers(v)
    \/ \E e \in RefusedErrors : ProviderFails(e)
    \/ ReconnectSleepEnds
    \/ \E st \in {"online", "offline"} : SetState(OtherService, st)
    \/ IncrementAttempts(OtherService)
    \/ ResetAttempts(OtherService)
    \/ \E d \in OtherData : CSet(OtherKey, d, Undefined)
    \/ CDelete(OtherKey)

SpecIsolation == InitPoller /\ [][NextIsolation]_vars

(***************************************************************************)
(* Properties                                                              *)
(***************************************************************************)
AllRetryable(errs) == \A i \in 1 .. Len(errs) : shouldRetry(errs[i])

\* two getAdsPowerStatus(true) calls one after the other: the second has ended,
\* the first returned a value, nothing cleared the cache in between, and the
\* second started at most StatusTTL after the entry was written
TwoCallsInWindow ==
    /\ ppc = "done"
    /\ pEntry = "status"
    /\ pUseCache
    /\ prev.valid
    /\ inWindow

\* C1 as stated: the two calls issue exactly one provider call in total (the first
\* one going to the provider) and the second returns the value of the first.
CE_C1 ==
    (TwoCallsInWindow /\ prev.prov >= 1) =>
        /\ prev.prov + callProv = 1
        /\ pOutcome = Returned(prev.val)

\* C1 amended: the second call issues no provider call and returns the value the
\* first returned; the provider calls of the two are those of the first call's
\* fetch, one per attempt.
Thm_C1 ==
    TwoCallsInWindow =>
        /\ callProv = 0
        /\ pOutcome = Returned(prev.val)
        /\ prev.prov <= DefaultMaxRetries + 1

Wit_C1 ==
    /\ TwoCallsInWindow
    /\ prev.prov = 1
    /\ callProv = 0
    /\ pOutcome.kind = "value"

\* the first call ever made is checkConnectionWithRecovery
FirstCallRecovers == callNo = 1 /\ pEntry = "recover"

Thm_C3 ==
    /\ (maxRetries >= 0 /\ AllRetryable(rErrors) /\ Len(rErrors) = rCalls /\ rpc # "idle")
          => rCalls <= maxRetries + 1
    /\ (rpc = "thrown" /\ maxRetries >= 0 /\ AllRetryable(rErrors))
          => /\ rCalls = maxRetries + 1
             /\ Len(rErrors) = maxRetries + 1
             /\ rOutcome = Thrown(rErrors[Len(rErrors)])

Wit_C3 ==
    /\ rpc = "thrown"
    /\ maxRetries = 3
    /\ AllRetryable(rErrors)
    /\ rCalls = 4

\* a response with a 4xx status other than 429
ClientError(e) == e.axios /\ e.response /\ e.status >= 400 /\ e.status < 500 /\ e.status # 429

\* C4: as soon as an attempt fails with a 4xx status other than 429 (e.g. 404) no
\* further attempt and no sleep happens and that error is propagated; an operation
\* whose first attempt fails with a 404 is invoked exactly once.
Thm_C4 ==
    \A i \in 1 .. Len(rErrors) :
        ClientError(rErrors[i]) =>
            /\ i = Len(rErrors)
            /\ rpc = "thrown"
            /\ rOutcome = Thrown(rErrors[i])
            /\ rCalls = i
            /\ Len(rSleeps) = i - 1

Wit_C4 ==
    /\ rpc = "thrown"
    /\ maxRetries = 3
    /\ rErrors = <<HttpError(404)>>
    /\ rCalls = 1
    /\ rSleeps = <<>>

\* C5: a get(key) that finds the entry expired (now > expiry) returns absent and
\* removes the entry, and every later get(key) returns absent until the next
\* set(key, ...), wherever the clock has moved in between.
Thm_C5 ==
    \A k \in Keys :
        k \in expiredRead =>
            /\ ~MapHas(cache, k)
            /\ (lastOp.op = "get" /\ lastOp.key = k) => ~lastOp.found

Wit_C5 ==
    \E k \in Keys :
        /\ k \in expiredRead
        /\ lastOp.op = "get"
        /\ lastOp.key = k
        /\ now = 0

\* C6: shouldAttemptReconnect(service) returns true iff the attempts counted for
\* the service since they were last cleared are below maxReconnectAttempts (false
\* after 5 increments); after setState(service, online) the attempts are 0 and it
\* would return true again.
Thm_C6 ==
    \A s \in Services :
        /\ AttemptsOf(reconnectAttempts, s) = incs[s]
        /\ (lastConn.op = "shouldAttemptReconnect" /\ lastConn.service = s)
              => (lastConn.ok <=> incs[s] < 5)
        /\ (lastConn.op = "setState" /\ lastConn.arg = "online" /\ lastConn.service = s)
              => /\ AttemptsOf(reconnectAttempts, s) = 0
                 /\ shouldAttemptReconnect(reconnectAttempts, s)

Wit_C6 ==
    \E s \in Services :
        /\ lastConn.op = "shouldAttemptReconnect"
        /\ lastConn.service = s
        /\ incs[s] = 5
        /\ ~lastConn.ok

\* a check that is present in the report with the boolean outcome b
CheckIs(name, b) ==
    /\ MapHas(vReport.checks, name)
    /\ vReport.checks[name].kind \in {"bool", "size"}
    /\ vReport.checks[name].value = b

DependentChecks == {"is_file", "extension", "file_size", "executable_format"}

AllFiveChecks == {"exists"} \cup DependentChecks

\* C7: for a path that does not exist the report (returned, not thrown) has exists
\* false, is_file, extension, file_size and executable_format each present and
\* reported false, none of them evaluated against the filesystem, and valid false.
CE_C7 ==
    (vpc = "done" /\ vIn.exists = "false") =>
        /\ ~vReport.error
        /\ CheckIs("exists", FALSE)
        /\ \A n \in DependentChecks : CheckIs(n, FALSE)
        /\ vReport.fsCalls = <<"exists">>
        /\ ~vReport.valid

\* the executable suffix and signature of each target OS
OsSuffix(host) == IF host = "windows" THEN ".exe" ELSE ""

OsSignature(host) ==
    IF host = "windows" THEN <<77, 90, 144, 0>>
    ELSE IF host = "linux" THEN <<127, 69, 76, 70>>
    ELSE <<207, 250, 237, 254>>

\* C8: on every target OS an existing regular file of 200 MB that carries the OS's
\* executable suffix and starts with the OS's executable signature is valid.
CE_C8 ==
    (/\ vpc = "done"
     /\ vIn.exists = "true"
     /\ vIn.isFile
     /\ vIn.statOk
     /\ vIn.size = 200 * 1024 * 1024
     /\ vIn.openOk
     /\ vIn.suffix = OsSuffix(vIn.host)
     /\ vIn.header = OsSignature(vIn.host)) => vReport.valid

\* C9: valid is true iff each of the five checks has the boolean outcome true.
CE_C9 ==
    vpc = "done" => (vReport.valid <=> \A n \in AllFiveChecks : CheckIs(n, TRUE))

\* C10: when stat or the header read fails with an I/O error on an existing regular
\* file, the validator returns a report in which the affected check counts as
\* failed and valid is false.
CE_C10 ==
    (vpc = "done" /\ vIn.exists = "true" /\ vIn.isFile /\ (~vIn.statOk \/ ~vIn.openOk)) =>
        /\ ~vReport.error
        /\ ~vIn.statOk => ~CheckIs("file_size", TRUE)
        /\ ~vIn.openOk => ~CheckIs("executable_format", TRUE)
        /\ ~vReport.valid

\* the attempts of the service when the call started
AttemptsAtStart == AttemptsOf(connAtStart.attempts, AdsPower)

\* a checkConnectionWithRecovery call that started with the attempts at 0
RecoverFromZero == callNo >= 1 /\ pEntry = "recover" /\ AttemptsAtStart = 0

\* what holds all along such a call when every fetch fails with its retries used up
OutageSafe ==
    RecoverFromZero =>
        /\ callProv <= 24
        /\ Len(incTrace) <= 5
        /\ incTrace = [i \in 1 .. Len(incTrace) |-> i]
        /\ Len(reconnSleeps) = Len(incTrace)
        /\ \A i \in 1 .. Len(connTrace) : connTrace[i] = "offline"
        /\ lastFetch.kind \in {"none", "error"}
        /\ lastFetch.kind = "error" =>
              /\ shouldRetry(lastFetch.err)
              /\ getConnectionState(connectionStates, AdsPower) = "offline"
        /\ ppc = "reconnectSleep" => callProv = 4 * Len(incTrace)
        /\ ppc = "done" =>
              /\ lastFetch.kind = "error"
              /\ pOutcome = Exhausted(lastFetch.err)
              /\ incTrace = <<1, 2, 3, 4, 5>>
              /\ Len(connTrace) = 6
              /\ callProv = 24
              /\ AttemptsOf(reconnectAttempts, AdsPower) = 5

\* C11: when every fetch fails after exhausting its retries, a
\* checkConnectionWithRecovery call that starts with the attempts at 0 sets the
\* service offline, makes exactly 5 reconnection attempts (increment, sleep,
\* refetch: 6 fetches of 4 requests) and then ends by throwing the "max retries
\* reached" error made from the last fetch's error; it goes no further.
Thm_C11 ==
    /\ []OutageSafe
    /\ (RecoverFromZero /\ ppc \in {"fetching", "reconnectSleep"})
          ~> (RecoverFromZero /\ ppc = "done" /\ pOutcome.kind = "exhausted")

Wit_C11 ==
    /\ RecoverFromZero
    /\ ppc = "done"
    /\ pOutcome = Exhausted(HttpError(503))
    /\ incTrace = <<1, 2, 3, 4, 5>>
    /\ reconnSleeps = <<2000, 4000, 8000, 16000, 30000>>
    /\ callProv = 24

Thm_C13 ==
    (callNo >= 1 /\ pEntry = "status" /\ pUseCache /\ freshAtStart) =>
        /\ ppc = "done"
        /\ callProv = 0
        /\ pOutcome.kind = "value"
        /\ ~cleared => (MapHas(cache, StatusKey) /\ pOutcome = Returned(cache[StatusKey].data))
        /\ connectionStates = connAtStart.states
        /\ reconnectAttempts = connAtStart.attempts
        /\ \A s \in Services :
              /\ getConnectionState(connectionStates, s) =
                    getConnectionState(connAtStart.states, s)
              /\ AttemptsOf(reconnectAttempts, s) = AttemptsOf(connAtStart.attempts, s)

Wit_C13 ==
    /\ pEntry = "status"
    /\ pUseCache
    /\ freshAtStart
    /\ ppc = "done"
    /\ callProv = 0
    /\ AttemptsAtStart = 5
    /\ getConnectionState(connectionStates, AdsPower) = "offline"
    /\ now > writtenAt

\* C14: when the provider answers a fetch of a status call with a 4xx status other
\* than 429, the call ends at once with that error as its failure: no further
\* request, no increment of the attempts, no reconnection sleep or refetch.
CE_C14 ==
    (lastFetch.kind = "error" /\ ClientError(lastFetch.err)) =>
        /\ ppc = "done"
        /\ pOutcome.kind # "value"
        /\ pOutcome.err = lastFetch.err
        /\ lastFetch.err \in PollErrors

ReconnectDelays == <<2000, 4000, 8000, 16000, 30000>>

\* C19: each reconnection sleep of checkConnectionWithRecovery asks for
\* min(1000 * 2^attempts, 30000) ms, attempts being the count right after the
\* increment before the sleep: 2000, 4000, 8000, 16000, 30000 ms for the counts 1
\* to 5, in this order in a call that starts with attempts 0, and never more than
\* the cap.
Thm_C19 ==
    /\ Len(reconnSleeps) = Len(incTrace)
    /\ \A i \in 1 .. Len(reconnSleeps) :
          /\ incTrace[i] = AttemptsAtStart + i
          /\ incTrace[i] \in 1 .. 5
          /\ reconnSleeps[i] = ReconnectDelays[incTrace[i]]
          /\ reconnSleeps[i] <= 30000
    /\ (AttemptsAtStart = 0 /\ Len(reconnSleeps) <= 5)
          => reconnSleeps = SubSeq(ReconnectDelays, 1, Len(reconnSleeps))
    /\ ppc = "reconnectSleep" =>
          AttemptsOf(reconnectAttempts, AdsPower) = incTrace[Len(incTrace)]

Wit_C19 ==
    /\ pEntry = "recover"
    /\ ppc = "reconnectSleep"
    /\ AttemptsAtStart = 0
    /\ reconnSleeps = <<2000, 4000, 8000, 16000, 30000>>

\* a transport-level failure: the request got no response
TransportFailure(e) == e.axios /\ ~e.response

ServerError(e) == e.axios /\ e.response /\ e.status >= 500 /\ e.status < 600

RateLimited(e) == e.axios /\ e.response /\ e.status = 429

\* the i-th failure of the call was followed by a sleep and another attempt
Retried(i) == rCalls > i \/ (i = Len(rErrors) /\ rpc = "sleeping")

\* C17: shouldRetry is true for every transport-level failure (no response), for
\* every response status in [500, 600) and for 429, and false for every other 4xx
\* status; a failure with retries left is retried exactly in the first three cases.
Thm_C17 ==
    \A i \in 1 .. Len(rErrors) :
        /\ TransportFailure(rErrors[i]) => shouldRetry(rErrors[i])
        /\ ServerError(rErrors[i]) => shouldRetry(rErrors[i])
        /\ RateLimited(rErrors[i]) => shouldRetry(rErrors[i])
        /\ ClientError(rErrors[i]) => ~shouldRetry(rErrors[i])
        /\ i - 1 < maxRetries =>
              /\ (TransportFailure(rErrors[i]) \/ ServerError(rErrors[i])
                     \/ RateLimited(rErrors[i])) => Retried(i)
              /\ ClientError(rErrors[i]) => ~Retried(i)

Wit_C17 ==
    /\ maxRetries = 3
    /\ rErrors = <<NetworkError, HttpError(429), HttpError(599)>>
    /\ rpc = "sleeping"
    /\ rSleeps = <<1000, 2000, 4000>>

\* the call gave up because its retries were used up: the last failure was one
\* shouldRetry accepts
GaveUpExhausted ==
    /\ rpc = "thrown"
    /\ maxRetries >= 0
    /\ Len(rErrors) = maxRetries + 1
    /\ shouldRetry(rErrors[Len(rErrors)])

\* C18: when apiCallWithRetry gives up because the retries are exhausted, what it
\* raises is a distinct "retries exhausted" condition, not what the propagation of
\* the same error on shouldRetry = false raises, and it carries the last error as
\* its cause.
CE_C18 ==
    GaveUpExhausted =>
        /\ rOutcome # Thrown(rErrors[Len(rErrors)])
        /\ rOutcome.err = rErrors[Len(rErrors)]

\* C15 as stated: in every state reachable by any sequence of manager operations
\* the attempts of every service are at most maxReconnectAttempts.
CE_C15 ==
    \A s \in Services : AttemptsOf(reconnectAttempts, s) <= maxReconnectAttempts

\* the step is an incrementAttempts(s)
Increments(s) == lastConn'.op = "incrementAttempts" /\ lastConn'.service = s

\* C15 amended: as long as incrementAttempts(service) is called only while
\* shouldAttemptReconnect(service) is true, the attempts of every service stay at
\* most maxReconnectAttempts: no operation so called takes them above it.
Thm_C15 ==
    [][\A s \in Services :
          (/\ AttemptsOf(reconnectAttempts, s) <= 5
           /\ Increments(s) => shouldAttemptReconnect(reconnectAttempts, s))
             => AttemptsOf(reconnectAttempts', s) <= 5]_vars

Wit_C15 ==
    /\ lastConn.op = "incrementAttempts"
    /\ lastConn.was = 4
    /\ lastConn.ret = 5
    /\ AttemptsOf(reconnectAttempts, lastConn.service) = 5

\* the manager operation a step has just executed puts the service online
PutOnline(s) ==
    lastConn'.op = "setState" /\ lastConn'.service = s /\ lastConn'.arg = "online"

\* the attempts of the service are lower after the step than before it
Lowered(s) == AttemptsOf(reconnectAttempts', s) < AttemptsOf(reconnectAttempts, s)

\* C16 as stated: every setState(service, online) leaves the attempts of the service
\* at 0, and the attempts of a service are lowered by no operation other than a
\* setState(service, online): not by setState(service, offline), resetAttempts,
\* incrementAttempts, getState or shouldAttemptReconnect.
CE_C16 ==
    [][\A s \in Services :
          /\ PutOnline(s) => AttemptsOf(reconnectAttempts', s) = 0
          /\ Lowered(s) => PutOnline(s)]_vars

\* C16 amended: every setState(service, online) leaves the attempts of the service
\* at 0; resetAttempts(service) sets them to 0 too, whatever the status; no other
\* operation lowers the attempts of a service.
Thm_C16 ==
    [][\A s \in Services :
          /\ PutOnline(s) => AttemptsOf(reconnectAttempts', s) = 0
          /\ (lastConn'.op = "resetAttempts" /\ lastConn'.service = s)
                => AttemptsOf(reconnectAttempts', s) = 0
          /\ Lowered(s) =>
                /\ AttemptsOf(reconnectAttempts', s) = 0
                /\ PutOnline(s) \/ (lastConn'.op = "resetAttempts" /\ lastConn'.service = s)]_vars

Wit_C16 ==
    /\ lastConn.op = "setState"
    /\ lastConn.arg = "online"
    /\ lastConn.was = 3
    /\ AttemptsOf(reconnectAttempts, lastConn.service) = 0
    /\ getConnectionState(connectionStates, lastConn.service) = "online"

\* C20: with a clock that never goes backwards, get(key) returns the value of the
\* most recent set(key, ...) when no delete(key) or clear() came after that set and
\* now <= the expiry of that set, and returns absent otherwise; an earlier set of
\* the key has no influence on the value or the expiry seen.
Thm_C20 ==
    ~backwards =>
        \A k \in Keys :
            (lastOp.op = "get" /\ lastOp.key = k) =>
                /\ lastOp.found <=> (lastSet[k].live /\ now <= lastSet[k].expiry)
                /\ lastOp.found => lastOp.data = lastSet[k].data

Wit_C20 ==
    \E k \in Keys :
        /\ ~backwards
        /\ now > 0
        /\ lastOp.op = "get"
        /\ lastOp.key = k
        /\ lastOp.found
        /\ lastSet[k].over
        /\ lastSet[k].expiry > StatusTTL

\* the stages of the pipeline that ran on the path, in pipeline order
StagesRun ==
    <<"exists">>
    \o (IF vIn.exists = "true" THEN <<"is_file">> ELSE <<>>)
    \o (IF vIn.isFile THEN <<"extension", "file_size", "executable_format">> ELSE <<>>)

\* the remediation suggestion of each stage
StageSuggestion(n) ==
    CASE n = "exists" -> "check the path"
      [] n = "is_file" -> "path is a directory"
      [] n = "extension" -> "wrong extension"
      [] n = "file_size" -> "size abnormal"
      [] n = "executable_format" -> "not an executable"

\* the suggestions of the stages among the first n that ran and did not pass
RECURSIVE FailedSuggestions(_)
FailedSuggestions(n) ==
    IF n = 0 THEN <<>>
    ELSE FailedSuggestions(n - 1)
         \o (IF CheckIs(StagesRun[n], TRUE) THEN <<>>
             ELSE <<StageSuggestion(StagesRun[n])>>)

\* C24: in every report each stage that failed has contributed one suggestion, in
\* pipeline order (exists, is_file, extension, file_size, executable_format); so a
\* report with valid = false has at least one suggestion and one with valid = true
\* has none.
CE_C24 ==
    (vpc = "done" /\ ~vReport.error) =>
        /\ vReport.suggestions = FailedSuggestions(Len(StagesRun))
        /\ ~vReport.valid => Len(vReport.suggestions) >= 1
        /\ vReport.valid => vReport.suggestions = <<>>

\* the call ran on a regular file and returned its report
RegularFileDone == vpc = "done" /\ vIn.exists = "true" /\ vIn.isFile /\ ~vReport.error

Thm_C30 ==
    (RegularFileDone /\ vIn.statOk) =>
        /\ MapHas(vReport.checks, "file_size")
        /\ CheckIs("file_size", TRUE) <=> vIn.size > 10485760
        /\ CheckIs("file_size", FALSE) <=> vIn.size <= 10485760
        /\ vIn.size = 10485760 => (CheckIs("file_size", FALSE) /\ ~vReport.valid)
        /\ vIn.size <= 10485760 => ~vReport.valid

Wit_C30 ==
    /\ RegularFileDone
    /\ vIn.statOk
    /\ vIn.size = 10485760
    /\ vIn.host = "windows"
    /\ vIn.suffix = ".exe"
    /\ vIn.openOk
    /\ vIn.header = <<77, 90, 144, 0>>
    /\ ~vReport.valid
    /\ vReport.suggestions = <<"size abnormal">>

\* C22: the reconnection loop is iterative: during a checkConnectionWithRecovery
\* call, whatever the number of its reconnection attempts, no more than one
\* activation of the routine is pending.
CE_C22 == depth <= 1

\* C23: every delay apiCallWithRetry sleeps between two attempts is at most the cap
\* of the reconnection delay (30000 ms), whatever maxRetries and retryDelay are.
CE_C23 == \A i \in 1 .. Len(rSleeps) : rSleeps[i] <= ReconnectDelayCap

\* C27: within one apiCallWithRetry call exactly one sleep separates two attempts
\* that follow each other, none comes before the first attempt or after the last;
\* the sleep before the k-th retry lasts retryDelay * 2^(k-1): 1000, 2000, 4000 ms
\* with retryDelay = 1000 and maxRetries = 3.
Thm_C27 ==
    /\ rpc = "calling" => Len(rSleeps) = rCalls - 1
    /\ rpc = "sleeping" => (Len(rSleeps) = rCalls /\ rCalls <= maxRetries)
    /\ (rpc \in {"returned", "thrown"} /\ rCalls >= 1) => Len(rSleeps) = rCalls - 1
    /\ rCalls = 0 => rSleeps = <<>>
    /\ \A k \in 1 .. Len(rSleeps) : rSleeps[k] = rBase * 2 ^ (k - 1)
    /\ (rBase = 1000 /\ maxRetries = 3)
          => rSleeps = SubSeq(<<1000, 2000, 4000>>, 1, Len(rSleeps))

Wit_C27 ==
    /\ rpc = "returned"
    /\ rBase = 1000
    /\ maxRetries = 3
    /\ rCalls = 4
    /\ rSleeps = <<1000, 2000, 4000>>

\* what holds all along an apiCallWithRetry call
RetryBounded ==
    /\ rCalls <= (IF maxRetries >= 0 THEN maxRetries + 1 ELSE 0)
    /\ Len(rErrors) <= rCalls
    /\ rpc = "returned" =>
          /\ rOutcome.kind = "value"
          /\ rOutcome.val \in StatusValues
          /\ Len(rErrors) = rCalls - 1
    /\ rpc = "thrown" => (rOutcome.kind = "error" /\ Len(rErrors) = rCalls)

\* C28: whatever the operation does and whatever errors it fails with,
\* apiCallWithRetry ends after at most maxRetries + 1 invocations of the operation;
\* when an invocation succeeds it returns the value of that invocation and invokes
\* the operation no more.
Thm_C28 ==
    /\ []RetryBounded
    /\ [][(rpc \in {"returned", "thrown"})
            => (rpc' = rpc /\ rCalls' = rCalls /\ rOutcome' = rOutcome)]_vars
    /\ [][(rpc = "calling" /\ rpc' = "returned")
            => (rCalls' = rCalls /\ \E v \in StatusValues : rOutcome' = Returned(v))]_vars
    /\ (rpc \in {"calling", "sleeping"}) ~> (rpc \in {"returned", "thrown"})

Wit_C28 ==
    /\ rpc = "returned"
    /\ maxRetries = 2
    /\ rCalls = 3
    /\ rErrors = <<HttpError(503), NetworkError>>
    /\ rOutcome = Returned([available |-> TRUE, message |-> "ok-b"])

\* getState has just returned what the most recent setState of the service gave
GetStateAgrees ==
    \A s \in Services :
        (lastConn.op = "getState" /\ lastConn.service = s) =>
            lastConn.arg = (IF lastStatus[s] = "none" THEN "offline" ELSE lastStatus[s])

\* C29: getState(service) returns the state given to the most recent
\* setState(service, ...) and offline when setState was never called for the
\* service; incrementAttempts and resetAttempts never change what it returns.
Thm_C29 ==
    /\ []GetStateAgrees
    /\ [][(lastConn'.op \in {"incrementAttempts", "resetAttempts"}) =>
             \A s \in Services :
                 getConnectionState(connectionStates', s) =
                    getConnectionState(connectionStates, s)]_vars

Wit_C29 ==
    \E s \in Services :
        /\ lastConn.op = "getState"
        /\ lastConn.service = s
        /\ lastConn.arg = "online"
        /\ lastStatus[s] = "online"
        /\ lastConn.was = 2
        /\ \E t \in Services \ {s} : lastStatus[t] = "none"

\* C26: once the caller of a status call has signalled cancellation, the pending
\* retry or reconnection sleep of the call is aborted and the call makes no
\* further request to the provider and no further change to the cache or to the
\* ConnectionStateManager.
CE_C26 ==
    [][(cancelled /\ ppc \in {"fetching", "reconnectSleep"}) =>
          /\ callProv' = callProv
          /\ cache' = cache
          /\ connectionStates' = connectionStates
          /\ reconnectAttempts' = reconnectAttempts
          /\ rpc' # "sleeping"
          /\ ppc' # "reconnectSleep"]_vars

\* C21: the expiry of a cache entry is fixed when the entry is written; as long as
\* the entry is in the map no operation changes it but a set of the same key: a
\* get that returns the entry does not extend it, and set, get, delete on other
\* keys and the passing of time leave it as it is.
Thm_C21 ==
    [][\A k \in Keys :
          (MapHas(cache, k) /\ MapHas(cache', k) /\ cache'[k].expiry # cache[k].expiry)
             => (lastOp'.op = "set" /\ lastOp'.key = k)]_vars

Wit_C21 ==
    \E k \in Keys :
        /\ lastOp.op = "get"
        /\ lastOp.key = k
        /\ lastOp.found
        /\ now = 20000
        /\ cache[k].expiry = 30000
        /\ \E j \in Keys \ {k} : MapHas(cache, j) /\ cache[j].expiry = 40000

GatedChecks == {"extension", "file_size", "executable_format"}

\* C31: in every report is_file is true only if exists is true, and extension,
\* file_size and executable_format are true (indeed present at all) only if
\* is_file is true; for a path that names a directory exists is true, is_file is
\* false, none of the three dependent checks is true and valid is false.
Thm_C31 ==
    vpc = "done" =>
        /\ CheckIs("is_file", TRUE) => CheckIs("exists", TRUE)
        /\ \A n \in GatedChecks :
               MapHas(vReport.checks, n) => CheckIs("is_file", TRUE)
        /\ (vIn.exists = "true" /\ ~vIn.isFile) =>
               /\ CheckIs("exists", TRUE)
               /\ CheckIs("is_file", FALSE)
               /\ \A n \in GatedChecks : ~GetTruth(vReport.checks, n)
               /\ ~vReport.valid

\* a directory has been validated
Wit_C31 ==
    /\ vpc = "done"
    /\ vIn.exists = "true"
    /\ ~vIn.isFile
    /\ CheckIs("exists", TRUE)
    /\ CheckIs("is_file", FALSE)
    /\ ~vReport.valid

\* C38: for every path and filesystem state, when validate_chrome_path_detailed
\* reports valid = true, validate_chrome_path reports valid = true for the same
\* path (at the 10 MB boundary and for every suffix too).
Thm_C38 ==
    (vpc = "done" /\ vBasic.done /\ vReport.valid) => vBasic.valid

\* both validators accepted a file one byte over 10 MB
Wit_C38 ==
    /\ vpc = "done"
    /\ vBasic.done
    /\ vReport.valid
    /\ vBasic.valid
    /\ vIn.size = 10 * 1024 * 1024 + 1

\* C39: set(key, value, ttl) with an explicit ttl >= 0, ttl = 0 included, gives the
\* entry the expiry write time + ttl; the default TTL of the store is used only
\* when ttl is omitted.
CE_C39 ==
    [][\A k \in Keys, d \in Data, ttl \in TTLs :
          CSet(k, d, ttl) => (MapHas(cache', k) /\ cache'[k].expiry = now + ttl)]_vars

\* a checkConnectionWithRecovery call that started with the attempts of the
\* service used up
RecoverFromExhausted ==
    callNo >= 1 /\ pEntry = "recover" /\ AttemptsAtStart = maxReconnectAttempts

\* what such a call does, and where every call that ends exhausted leaves the
\* attempts
ExhaustedStays ==
    /\ (ppc = "done" /\ pOutcome.kind = "exhausted") =>
           AttemptsOf(reconnectAttempts, AdsPower) = maxReconnectAttempts
    /\ RecoverFromExhausted =>
           /\ depth <= 1
           /\ incTrace = <<>>
           /\ reconnSleeps = <<>>
           /\ ppc # "reconnectSleep"
           /\ ppc = "fetching" =>
                  AttemptsOf(reconnectAttempts, AdsPower) = maxReconnectAttempts
           /\ ppc = "done" =>
                  \/ /\ pOutcome.kind = "exhausted"
                     /\ AttemptsOf(reconnectAttempts, AdsPower) = maxReconnectAttempts
                  \/ /\ pOutcome.kind = "value"
                     /\ pOutcome.val.available
                     /\ AttemptsOf(reconnectAttempts, AdsPower) = 0

\* C36: after checkConnectionWithRecovery has thrown the attempts-exhausted error
\* the attempts of the service stay at maxReconnectAttempts, and every later call
\* makes one fetch and no reconnection attempt (no increment, no reconnection
\* sleep, no new fetch), until a fetch succeeds with an available status (the
\* only thing that clears the attempts here).
Thm_C36 ==
    /\ []ExhaustedStays
    /\ [][(/\ AttemptsOf(reconnectAttempts, AdsPower) = maxReconnectAttempts
           /\ AttemptsOf(reconnectAttempts', AdsPower) # maxReconnectAttempts) =>
             (/\ lastFetch'.kind = "value"
              /\ lastFetch'.val.available
              /\ getConnectionState(connectionStates', AdsPower) = "online"
              /\ AttemptsOf(reconnectAttempts', AdsPower) = 0)]_vars

\* the call after an exhausted one has failed again
Wit_C36 ==
    /\ RecoverFromExhausted
    /\ callNo = 2
    /\ ppc = "done"
    /\ pOutcome.kind = "exhausted"
    /\ callProv >= 1
    /\ connTrace = <<"offline">>

\* C37: with one caller, whenever a checkConnectionWithRecovery call (it always
\* goes to the provider) ends by throwing, the service is offline; whenever it
\* ends by returning the fetched status, the service is online with attempts 0;
\* the service is set offline before the reconnection sleep starts, so
\* getConnectionState answers offline during every reconnection sleep.
Thm_C37 ==
    (callNo >= 1 /\ pEntry = "recover") =>
        /\ callProv >= 1
        /\ (ppc = "done" /\ pOutcome.kind \in {"error", "exhausted"}) =>
               getConnectionState(connectionStates, AdsPower) = "offline"
        /\ (ppc = "done" /\ pOutcome.kind = "value") =>
               /\ pOutcome = lastFetch
               /\ getConnectionState(connectionStates, AdsPower) = "online"
               /\ AttemptsOf(reconnectAttempts, AdsPower) = 0
        /\ ppc = "done" => pOutcome.kind \in {"value", "exhausted"}
        /\ ppc = "reconnectSleep" =>
               /\ getConnectionState(connectionStates, AdsPower) = "offline"
               /\ Len(connTrace) = Len(reconnSleeps)
               /\ connTrace[Len(connTrace)] = "offline"

\* a service that was online when the call started is offline during the
\* reconnection sleep
Wit_C37 ==
    /\ pEntry = "recover"
    /\ ppc = "reconnectSleep"
    /\ getConnectionState(connAtStart.states, AdsPower) = "online"
    /\ getConnectionState(connectionStates, AdsPower) = "offline"

\* the step in which a fetch (apiCallWithRetry inside getAdsPowerStatus) returns
\* a status
FetchReturns == lastFetch.kind = "none" /\ lastFetch'.kind = "value"

\* the step puts something under the status key
StatusStored ==
    /\ MapHas(cache', StatusKey)
    /\ ~MapHas(cache, StatusKey) \/ cache'[StatusKey] # cache[StatusKey]

\* a getAdsPowerStatus(true) call has returned what it found in the cache
ReturnedFromCache ==
    /\ callNo >= 1
    /\ pEntry = "status"
    /\ pUseCache
    /\ freshAtStart
    /\ ppc = "done"
    /\ pOutcome.kind = "value"

Thm_C33 ==
    /\ [](AttemptsOf(reconnectAttempts, AdsPower) <= maxReconnectAttempts)
    /\ [][(AttemptsOf(reconnectAttempts', AdsPower) > AttemptsOf(reconnectAttempts, AdsPower)) =>
             /\ AttemptsOf(reconnectAttempts, AdsPower) < maxReconnectAttempts
             /\ AttemptsOf(reconnectAttempts', AdsPower) =
                    AttemptsOf(reconnectAttempts, AdsPower) + 1]_vars

\* two checkConnectionWithRecovery calls sleep before a reconnection at the same
\* time with the attempts at the maximum; one of them was allowed a reconnection
\* when its fetch started and took the last
Wit_C33 ==
    /\ \A c \in Callers : cEntry[c] = "recover" /\ cpc[c] = "reconnectSleep" /\ cOverlap[c]
    /\ AttemptsOf(reconnectAttempts, AdsPower) = maxReconnectAttempts

\* C35 as stated: at most one request to the provider is in flight at any time
\* (concurrent getAdsPowerStatus(true) calls on an empty or expired entry share
\* one request).
CE_C35 == Cardinality(InFlight) <= 1

\* caller c starts a getAdsPowerStatus call in this step
StartsStatus(c) ==
    /\ cpc[c] \in {"idle", "done"}
    /\ cpc'[c] # cpc[c]
    /\ cEntry'[c] = "status"

\* C35 amended: there is no sharing of requests in flight. Every
\* getAdsPowerStatus call that does not find a fresh entry sends its own request,
\* whatever the other callers are doing, and only a call that finds a fresh entry
\* is served from the cache; each call returns the status of its own fetch, and
\* the cache holds the status of the fetch that returned last.
Thm_C35 ==
    /\ [][\A c \in Callers :
             StartsStatus(c) =>
                IF StatusCacheHit(cache, cUseCache'[c], now)
                THEN cpc'[c] = "done" /\ cOutcome'[c] = Returned(cache[StatusKey].data)
                ELSE cpc'[c] = "calling"]_vars
    /\ [][\A c \in Callers :
             (cpc[c] = "calling" /\ cpc'[c] = "done" /\ cOutcome'[c].kind = "value") =>
                /\ MapHas(cache', StatusKey)
                /\ cache'[StatusKey] = [data |-> cOutcome'[c].val, expiry |-> now + 30000]]_vars

\* two getAdsPowerStatus(true) calls that found no fresh entry have a request
\* each at the provider
Wit_C35 ==
    /\ \A c \in Callers : cEntry[c] = "status" /\ cUseCache[c] /\ cpc[c] = "calling"
    /\ InFlight = Callers
    /\ ~CacheGetFound(cache, StatusKey, now)

\* what a map holds for a key, if anything
EntryOf(m, k) == IF MapHas(m, k) THEN <<m[k]>> ELSE <<>>

\* the step leaves the connection state and the attempts of the service alone
KeepsService(s) ==
    /\ EntryOf(connectionStates', s) = EntryOf(connectionStates, s)
    /\ EntryOf(reconnectAttempts', s) = EntryOf(reconnectAttempts, s)

\* the step leaves the cache entry of the key alone
KeepsKey(k) == EntryOf(cache', k) = EntryOf(cache, k)

\* the step is an operation of the manager, or of the cache, made for the other
\* service or key (the steps of the status call record nothing there)
ManagerOp == lastConn' # lastConn

CacheOp == lastOp' # lastOp

\* where a checkConnectionWithRecovery call running alone stands
RecoverAsAlone ==
    (callNo >= 1 /\ pEntry = "recover") =>
        /\ \A i \in 1 .. Len(incTrace) : incTrace[i] = AttemptsAtStart + i
        /\ ppc = "reconnectSleep" =>
               /\ getConnectionState(connectionStates, AdsPower) = "offline"
               /\ AttemptsOf(reconnectAttempts, AdsPower) = AttemptsAtStart + Len(incTrace)
        /\ ppc = "done" =>
               \/ /\ pOutcome.kind = "value"
                  /\ pOutcome = lastFetch
                  /\ getConnectionState(connectionStates, AdsPower) = "online"
                  /\ AttemptsOf(reconnectAttempts, AdsPower) = 0
               \/ /\ pOutcome.kind = "exhausted"
                  /\ pOutcome.err = lastFetch.err \/ pOutcome.err = UnavailableError
                  /\ getConnectionState(connectionStates, AdsPower) = "offline"
                  /\ AttemptsOf(reconnectAttempts, AdsPower) = maxReconnectAttempts

\* C32: with the stores shared between a status call for one service and
\* operations made for another service and another cache key, in any
\* interleaving, every operation for one service leaves the cache entry, the
\* connection state and the attempts of the other unchanged (and the call itself
\* untouched), so the call proceeds and ends as it does alone.
Thm_C32 ==
    /\ [][(ManagerOp \/ CacheOp) =>
             /\ KeepsService(AdsPower)
             /\ KeepsKey(StatusKey)
             /\ pollVars' = pollVars
             /\ retryVars' = retryVars]_vars
    /\ [][ManagerOp => (lastConn'.service = OtherService /\ cache' = cache)]_vars
    /\ [][CacheOp =>
             /\ lastOp'.key = OtherKey
             /\ connectionStates' = connectionStates
             /\ reconnectAttempts' = reconnectAttempts]_vars
    /\ [][(~ManagerOp /\ ~CacheOp) =>
             (KeepsService(OtherService) /\ KeepsKey(OtherKey))]_vars
    /\ []RecoverAsAlone

\* the call has used up the attempts of its service while the other service
\* stands at 2 attempts, and both keys are in the cache
Wit_C32 ==
    /\ pEntry = "recover"
    /\ ppc = "done"
    /\ pOutcome.kind = "exhausted"
    /\ AttemptsOf(reconnectAttempts, AdsPower) = maxReconnectAttempts
    /\ AttemptsOf(reconnectAttempts, OtherService) = 2
    /\ getConnectionState(connectionStates, OtherService) = "online"
    /\ MapHas(cache, OtherKey)
    /\ MapHas(cache, StatusKey)

====
